---- MODULE Spec2Model ----
(***************************************************************************)
(* Orchestration layer of the TTP coordinator                              *)
(* (rest_rpc/training/core/server.py): start_proc builds the experiment-   *)
(* run combinations and drives each through start_expt_run_training:       *)
(* governor.initialise, train_combination (connect_to_ttp,                 *)
(* connect_to_workers, load, fit, export, terminate_connections),          *)
(* governor.terminate, return results.                                     *)
(***************************************************************************)
EXTENDS Integers, Sequences, FiniteSets, TLC

(* ---- bounds of the model ---- *)
MaxExpts == 2
MaxRuns == 2
MaxRegs == 2
MaxReqs == 3

(* ---- input domains ---- *)
ProjectIds == {"proj"}
ExptIds == {"expt_1", "expt_2"}
RunIds == {"run_1", "run_2"}
ParticipantIds == {"p1", "p2"}

\* start_expt_run_training distinguishes exactly two classes of exception:
\* OSError (caught at line 363) and everything else (propagates).
ExcClasses == {"OSError", "Exception"}
Outcomes == {"ok"} \cup ExcClasses

ExptRecords == [expt_id : ExptIds]
RunRecords == [project_id : ProjectIds, expt_id : ExptIds, run_id : RunIds]
\* a registration record: the participant's worker id, whether its
\* 'participant' payload carries the f_port field that line 124 pops, and
\* the log_msgs and verbose settings stored with the participant
RegRecords ==
    [id : ParticipantIds, f_port : BOOLEAN, log_msgs : BOOLEAN, verbose : BOOLEAN]

\* the records of the simulation scripts: both settings are stored as False
SimRegRecords == {r \in RegRecords : ~r.log_msgs /\ ~r.verbose}

SeqsUpTo(S, lo, hi) == UNION {[1..n -> S] : n \in lo..hi}

\* the worker object sy.local_worker designates at import time (line 64)
REF_WORKER == [id |-> "me", sess |-> 0, pos |-> 0]

\* no worker object bound to the name
NoWorker == [id |-> "none", sess |-> 0, pos |-> 0]

\* a local name that has not been assigned
Unbound == <<>>

\* the empty dict
EmptyDict == [k \in {} |-> Unbound]

NoFault == [site |-> "none", cls |-> "none"]

VARIABLES
    experiments,            \* kwargs['experiments']
    runs,                   \* kwargs['runs']
    registrations,          \* kwargs['registrations']
    log_msgs,               \* kwargs['log_msgs']
    verbose,                \* kwargs['verbose']
    training_combinations,  \* ordered dict: sequence of [key, expt, run]
    completed_trainings,    \* the dict the comprehension at 491 is building
    returned,               \* the dict start_proc returned (pc = "returned")
    pc,                     \* position of the single thread of control
    idx,                    \* index of the combination being run
    sy_local_worker,        \* sy.local_worker
    hook_local_worker,      \* grid_hook.local_worker
    known_workers,          \* the local worker registry (handles by id)
    connections,            \* handles whose websocket connection is open
    ttp,                    \* train_combination's local ttp
    workers,                \* train_combination's local workers list
    out_paths,              \* train_combination's local out_paths
    results,                \* start_expt_run_training's local results
    w_idx,                  \* loop index of terminate_connections
    \* ---- history of the current session ----
    sessExit,               \* "running" | "returned" | "raised"
    trainFault,             \* exception raised inside train_combination
    exitExc,                \* exception that left start_expt_run_training
    initCalls,              \* governor.initialise invocations
    termCalls,              \* governor.terminate invocations
    signals,                \* lifecycle signals issued in this session
    signalFailed,           \* a lifecycle signal raised in this session
    opened,                 \* handles opened by connect_to_workers
    configs,                \* configs the handles were opened with
    fl_calls,               \* calls made on fl_expt, each with its outcome
    removed,                \* handles removed by terminate_connections
    openFailedAt,           \* k when opening record k failed, else 0
    termConnDone,           \* terminate_connections returned
    \* ---- history of the whole run ----
    started,                \* sessions started by start_proc
    order,                  \* keys start_expt_run_training was called for
    ttpCreated,             \* connect_to_ttp calls so far
    termConnTotal,          \* terminate_connections calls that restored identity
    termConnReturned,       \* terminate_connections calls that returned
    \* ---- the tag table served by rest_rpc/connection/tags.py ----
    tag_db,                 \* the Tag table: (project_id, participant_id) -> record
    last_doc_id,            \* the last doc_id the table has given out
    tag_log,                \* the requests Tag has served, each with its response
    nni_pc,                 \* position inside NNITuner's methods
    nni_caller,             \* "tune", or "helpers" when the helper methods
                            \* are called one by one
    nni_args,               \* the arguments of the call
    nni_files,              \* the files written, in the order of writing
    nni_exec,               \* the commands handed to subprocess.run, in order
    nni_out,                \* the value the call returned
    nni_exc                 \* the exception class the call raised

sessVars == <<ttp, workers, out_paths, results, w_idx>>
sessHist == <<sessExit, trainFault, exitExc, initCalls, termCalls, signals,
              signalFailed, opened, configs, fl_calls, removed, openFailedAt,
              termConnDone>>
runHist == <<started, order, ttpCreated, termConnTotal, termConnReturned>>
inputs == <<experiments, runs, registrations, log_msgs, verbose>>
identity == <<sy_local_worker, hook_local_worker>>
trainVars == <<inputs, training_combinations, completed_trainings, returned, pc,
               idx, identity, known_workers, connections, sessVars, sessHist,
               runHist>>
tagVars == <<tag_db, last_doc_id, tag_log>>
nniVars == <<nni_pc, nni_caller, nni_args, nni_files, nni_exec, nni_out,
            nni_exc>>
vars == <<trainVars, tagVars, nniVars>>

(* ---- the ordered dict training_combinations (lines 409-431) ---- *)

\* position of key in the ordered dict d, 0 when absent
DictIndex(d, key) ==
    IF \E i \in 1..Len(d) : d[i].key = key
    THEN CHOOSE i \in 1..Len(d) : d[i].key = key
    ELSE 0

\* a bug of line 431: setdefault instead of the assignment, so that an
\* existing key keeps the value it was first given
DictSetDefault(d, key, val) ==
    IF DictIndex(d, key) = 0 THEN Append(d, val) ELSE d

\* line 431: d[key] = val: a new key is appended, an existing key keeps its
\* position and takes the new value
DictSet(d, key, val) ==
    IF DictIndex(d, key) = 0
    THEN Append(d, val)
    ELSE [d EXCEPT ![DictIndex(d, key)] = val]

DictKeys(d) == {d[i].key : i \in 1..Len(d)}

\* combination_key of a run record (line 421)
CombinationKey(run_record) ==
    <<run_record.project_id, run_record.expt_id, run_record.run_id>>

\* a bug of line 419: the test is dropped and every run is paired with
\* every experiment
MatchesAlways(expt_record, run_record) == TRUE

\* line 419: r_expt_id == curr_expt_id
Matches(expt_record, run_record) ==
    run_record.expt_id = expt_record.expt_id

\* the dict after the first n iterations of the nested loop of lines 410-431,
\* the outer loop over experiments, the inner one over runs
RECURSIVE CombinationsAfter(_, _, _)
CombinationsAfter(expts, rs, n) ==
    IF n = 0 THEN <<>>
    ELSE LET e == ((n - 1) \div Len(rs)) + 1
             r == ((n - 1) % Len(rs)) + 1
             \* one iteration, applied to the dict built so far
             After(prev) ==
                 IF Matches(expts[e], rs[r])
                 THEN DictSet(prev, CombinationKey(rs[r]),
                              [key |-> CombinationKey(rs[r]),
                               expt |-> e, run |-> r])
                 ELSE prev
         IN  CHOOSE d \in {After(prev) :
                              prev \in {CombinationsAfter(expts, rs, n - 1)}} :
                 TRUE

BuildCombinations(expts, rs) ==
    CombinationsAfter(expts, rs, Len(expts) * Len(rs))

(* ---- the local worker registry (_known_workers), indexed by worker id ---- *)

Registered(reg, id) == \E g \in reg : g.id = id

\* a created worker object adds itself under its id; an entry already
\* registered under the same id is not replaced (comment at lines 177-181)
Register(reg, h) == IF Registered(reg, h.id) THEN reg ELSE reg \cup {h}

\* a bug of lines 167 and 188: the registry removal is left out, only the
\* local name is deleted
UnregisterNothing(reg, h) == reg

\* remove_worker_from_local_worker_registry: removal by the handle's id
Unregister(reg, h) == {g \in reg : g.id # h.id}

WorkerHandles(reg) == {g \in reg : g.id \in ParticipantIds}

(* ---- the Tag table (TagRecords, rest_rpc/connection/core/utils.py) ---- *)

TagKeys == ProjectIds \X ParticipantIds

\* request bodies: two tag sets that pass the schema and one that does not
TagPayloads == {"tags_1", "tags_2", "malformed"}

\* the payload passes schemas['tag_schema'] (no ValidationError is raised)
ValidTags(details) == details # "malformed"

\* read() finds no record (a falsy value)
NoTag == [doc_id |-> 0, details |-> "none"]

\* TagRecords.read(project_id, participant_id)
TagRead(db, key) == db[key]

\* TagRecords.create(project_id, participant_id, details): the record is
\* stored under its key with the next doc_id; a record already stored under
\* the key is overwritten and keeps its doc_id
TagCreate(db, key, details, doc_id) ==
    [db EXCEPT ![key] =
        [doc_id |-> IF db[key] = NoTag THEN doc_id ELSE db[key].doc_id,
         details |-> details]]

\* TagRecords.update(project_id, participant_id, updates): the stored record
\* takes the updates; nothing is stored when there is no record
TagUpdate(db, key, updates) ==
    IF db[key] = NoTag THEN db
    ELSE [db EXCEPT ![key] = [doc_id |-> db[key].doc_id, details |-> updates]]

\* TagRecords.delete(project_id, participant_id)
TagDeleteRecord(db, key) == [db EXCEPT ![key] = NoTag]

TagInit ==
    /\ tag_db = [key \in TagKeys |-> NoTag]
    /\ last_doc_id = 0
    /\ tag_log = <<>>

(* ---- NNITuner (rest_rpc/training/core/hypertuners/nni_interface.py) ---- *)

\* no call of NNITuner has been made
NNIInit ==
    /\ nni_pc = "idle"
    /\ nni_caller = "none"
    /\ nni_args = <<>>
    /\ nni_files = <<>>
    /\ nni_exec = <<>>
    /\ nni_out = "none"
    /\ nni_exc = "none"

(* ---- start_proc ---- *)

\* start_proc compares ids for equality only (lines 419, 421) and the
\* registry is indexed by id, so the inputs are taken up to a renaming of
\* the ids of each kind: the first record of each list carries the first id
Init ==
    /\ experiments \in SeqsUpTo(ExptRecords, 1, MaxExpts)
    /\ experiments[1].expt_id = "expt_1"
    /\ runs \in SeqsUpTo(RunRecords, 1, MaxRuns)
    /\ runs[1].run_id = "run_1"
    /\ registrations \in SeqsUpTo(SimRegRecords, 1, MaxRegs)
    /\ registrations[1].id = "p1"
    /\ log_msgs = FALSE
    /\ verbose = FALSE
    /\ training_combinations = <<>>
    /\ completed_trainings = EmptyDict
    /\ returned = EmptyDict
    /\ pc = "start"
    /\ idx = 0
    /\ sy_local_worker = REF_WORKER
    /\ hook_local_worker = REF_WORKER
    /\ known_workers = {}
    /\ connections = {}
    /\ ttp = NoWorker
    /\ workers = <<>>
    /\ out_paths = Unbound
    /\ results = Unbound
    /\ w_idx = 0
    /\ sessExit = "none"
    /\ trainFault = NoFault
    /\ exitExc = NoFault
    /\ initCalls = 0
    /\ termCalls = 0
    /\ signals = <<>>
    /\ signalFailed = FALSE
    /\ opened = {}
    /\ configs = <<>>
    /\ fl_calls = <<>>
    /\ removed = {}
    /\ openFailedAt = 0
    /\ termConnDone = FALSE
    /\ started = 0
    /\ order = <<>>
    /\ ttpCreated = 0
    /\ termConnTotal = 0
    /\ termConnReturned = 0
    /\ TagInit
    /\ NNIInit

\* lines 402-433: read kwargs and build training_combinations
StartProcBuild ==
    /\ pc = "start"
    /\ training_combinations' = BuildCombinations(experiments, runs)
    /\ pc' = "next"
    /\ UNCHANGED <<nniVars, tagVars, inputs, completed_trainings, returned, idx,
                   identity, known_workers, connections, sessVars, sessHist,
                   runHist>>

\* a bug of lines 491-494: the items are taken from the last to the first
ItemAtReversed(d, n) == d[Len(d) + 1 - n]

\* lines 491-494: the n-th item that iterating over
\* training_combinations.items() yields, in insertion order
ItemAt(d, n) == d[n]

\* a bug of lines 341-346: train_combination is entered without the
\* initialisation signal having been sent
FirstCallConnects == "connect_to_ttp"

\* lines 339-343: the first call start_expt_run_training makes is
\* governor.initialise
FirstCall == "initialise"

\* a bug of lines 491-494: the iteration does not advance past the first
\* item, which is run again
NextIndexSticks(i) == IF i = 0 THEN 1 ELSE i

\* lines 491-494: the comprehension's iterator advances by one item
NextIndex(i) == i + 1

\* lines 491-494: the comprehension calls start_expt_run_training(**kwargs)
\* for the next item of training_combinations; lines 276-339 enter the call
StartExptRunTraining ==
    /\ pc = "next"
    /\ idx < Len(training_combinations)
    /\ idx' = NextIndex(idx)
    /\ started' = started + 1
    /\ order' = Append(order, ItemAt(training_combinations, idx').key)
    /\ pc' = FirstCall
    /\ ttp' = NoWorker
    /\ workers' = <<>>
    /\ out_paths' = Unbound
    /\ results' = Unbound
    /\ w_idx' = 0
    /\ sessExit' = "running"
    /\ trainFault' = NoFault
    /\ exitExc' = NoFault
    /\ initCalls' = 0
    /\ termCalls' = 0
    /\ signals' = <<>>
    /\ signalFailed' = FALSE
    /\ opened' = {}
    /\ configs' = <<>>
    /\ fl_calls' = <<>>
    /\ removed' = {}
    /\ openFailedAt' = 0
    /\ termConnDone' = FALSE
    /\ UNCHANGED <<nniVars, tagVars, inputs, training_combinations,
                   completed_trainings, returned, identity, known_workers,
                   connections, ttpCreated, termConnTotal, termConnReturned>>

\* line 496: the comprehension is exhausted, start_proc returns the dict
StartProcReturn ==
    /\ pc = "next"
    /\ idx = Len(training_combinations)
    /\ returned' = completed_trainings
    /\ pc' = "returned"
    /\ UNCHANGED <<nniVars, tagVars, inputs, training_combinations,
                   completed_trainings, idx, identity, known_workers,
                   connections, sessVars, sessHist, runHist>>

(* ---- exceptions ---- *)

\* a bug (or a hasty fix) of lines 491-494: the exception of a combination
\* is swallowed and the comprehension goes on with the next combination
PropagateSwallowed(site, cls) ==
    /\ pc' = "next"
    /\ sessExit' = "raised"
    /\ exitExc' = [site |-> site, cls |-> cls]

\* an exception leaves start_expt_run_training; the comprehension of
\* lines 491-494 has no handler, so it leaves start_proc as well
Propagate(site, cls) ==
    /\ pc' = "raised"
    /\ sessExit' = "raised"
    /\ exitExc' = [site |-> site, cls |-> cls]

\* an exception raised inside train_combination (line 346): OSError is
\* caught at lines 363-364 and control falls to line 366 with results
\* unbound; any other class propagates
RaiseInTrain(site, cls) ==
    /\ trainFault' = [site |-> site, cls |-> cls]
    /\ IF cls = "OSError"
       THEN /\ pc' = "terminate"
            /\ UNCHANGED <<sessExit, exitExc>>
       ELSE Propagate(site, cls)

(* ---- start_expt_run_training and train_combination ---- *)

CurKey == ItemAt(training_combinations, idx).key

\* a bug of line 423: the keys passed on are those of the first run record,
\* not of the run record of the pair
KeysOfFirstRun(c) == CombinationKey(runs[1])

\* line 423: 'keys': run_key, the key of the run record of the pair; line 341
\* builds the Governor from it (project_id, expt_id, run_id)
SessionKeys(c) == CombinationKey(runs[c.run])

\* lines 341-343, 366-368: one lifecycle signal with the arguments it is issued
\* with: Governor(dockerised, **keys).<call>(reg_records=registrations)
Signal(call, c, reg_records) ==
    [call |-> call, keys |-> SessionKeys(c), reg_records |-> reg_records]

\* lines 341-343: governor.initialise(reg_records=registrations); the call
\* is made outside the try of line 345
GovernorInitialise ==
    /\ pc = "initialise"
    /\ initCalls' = initCalls + 1
    /\ signals' = Append(signals,
                         Signal("initialise",
                                ItemAt(training_combinations, idx),
                                registrations))
    /\ \E o \in Outcomes :
          IF o = "ok"
          THEN /\ pc' = "connect_to_ttp"
               /\ UNCHANGED <<sessExit, exitExc, signalFailed>>
          ELSE /\ signalFailed' = TRUE
               /\ Propagate("initialise", o)
    /\ UNCHANGED <<nniVars, tagVars, inputs, training_combinations,
                   completed_trainings, returned, idx, identity, known_workers,
                   connections, sessVars, trainFault, fl_calls, termCalls,
                   opened, configs, removed, openFailedAt, termConnDone,
                   runHist>>

\* a bug of lines 94-96: grid_hook.local_worker is not replaced
ConnectToTTPNoHook ==
    /\ pc = "connect_to_ttp"
    /\ ttp' = [id |-> "ttp", sess |-> started, pos |-> 0]
    /\ sy_local_worker' = ttp'
    /\ known_workers' = Register(known_workers, ttp')
    /\ ttpCreated' = ttpCreated + 1
    /\ pc' = "connect_to_workers"
    /\ UNCHANGED <<nniVars, tagVars, inputs, training_combinations,
                   completed_trainings, returned, idx, hook_local_worker,
                   connections, workers, out_paths, results, w_idx, sessHist,
                   started, order, termConnTotal, termConnReturned>>

\* lines 283, 71-103: create the 'ttp' VirtualWorker and install it as
\* sy.local_worker and grid_hook.local_worker
ConnectToTTP ==
    /\ pc = "connect_to_ttp"
    /\ ttp' = [id |-> "ttp", sess |-> started, pos |-> 0]
    /\ sy_local_worker' = ttp'
    /\ hook_local_worker' = ttp'
    /\ known_workers' = Register(known_workers, ttp')
    /\ ttpCreated' = ttpCreated + 1
    /\ pc' = "connect_to_workers"
    /\ UNCHANGED <<nniVars, tagVars, inputs, training_combinations,
                   completed_trainings, returned, idx, connections, workers,
                   out_paths, results, w_idx, sessHist, started, order,
                   termConnTotal, termConnReturned>>

\* rpc_formatter.strip_keys(reg_record['participant']) (line 123) hands
\* back a new mapping: the record it is given is not the object that
\* lines 124-128 modify
StripKeysCopies == TRUE

\* a bug of lines 123-124: f_port is popped from the record itself
ParticipantPopped(rec) == [rec EXCEPT !.f_port = FALSE]

\* the registration record after lines 123-128 have run for it: the pop of
\* f_port and the log_msgs / verbose overlay are applied to config, and
\* reach the record only when config is the record itself
ParticipantAfterConfig(rec) ==
    IF StripKeysCopies THEN rec ELSE ParticipantPopped(rec)

\* line 124: config.pop('f_port') (the field is present when it is popped)
PopFPort(config) == [config EXCEPT !.f_port = FALSE]

\* a bug of lines 127-128: the session's settings are only defaults, the
\* settings stored with the participant win
OverlayAsDefault(config, lm, vb) == config

\* lines 127-128: config['log_msgs'] = log_msgs; config['verbose'] = verbose
Overlay(config, lm, vb) == [config EXCEPT !.log_msgs = lm, !.verbose = vb]

\* lines 123-128: the config that is passed to WebsocketClientWorker at
\* line 140 for a registration record carrying f_port
Config(rec, lm, vb) == Overlay(PopFPort(rec), lm, vb)

\* a bug of line 142: the new handle is put at the head of the list
PrependWorker(ws, h) == <<h>> \o ws

\* line 142: workers.append(curr_worker)
AppendWorker(ws, h) == Append(ws, h)

\* a bug of line 124: config.pop('f_port', None), the field is optional
FPortDefaulted(rec) == TRUE

\* line 124: config.pop('f_port') succeeds when the participant payload
\* carries the field and raises KeyError when it does not
HasFPort(rec) == rec.f_port

\* lines 120-142: one iteration of connect_to_workers' loop, for the record
\* after those already handled; config.pop('f_port') raises KeyError when
\* the field is absent, WebsocketClientWorker(...) may fail to connect
OpenWorker ==
    /\ pc = "connect_to_workers"
    /\ Len(workers) < Len(registrations)
    /\ LET k == Len(workers) + 1
           rec == registrations[k]
           h == [id |-> rec.id, sess |-> started, pos |-> k]
       IN  IF ~HasFPort(rec)
           THEN /\ RaiseInTrain("f_port", "Exception")
                /\ UNCHANGED <<registrations, workers, known_workers,
                               connections, opened, configs, openFailedAt>>
           ELSE /\ registrations' =
                      [registrations EXCEPT ![k] = ParticipantAfterConfig(rec)]
                /\ \E o \in Outcomes :
                      IF o = "ok"
                      THEN /\ workers' = AppendWorker(workers, h)
                           /\ known_workers' = Register(known_workers, h)
                           /\ connections' = connections \cup {h}
                           /\ opened' = opened \cup {h}
                           /\ configs' =
                                 Append(configs, Config(rec, log_msgs, verbose))
                           /\ UNCHANGED <<pc, sessExit, exitExc, trainFault,
                                          openFailedAt>>
                      ELSE /\ openFailedAt' = k
                           /\ RaiseInTrain("connect", o)
                           /\ UNCHANGED <<workers, known_workers, connections,
                                          opened, configs>>
    /\ UNCHANGED <<nniVars, tagVars, experiments, runs, log_msgs, verbose,
                   training_combinations, completed_trainings, returned, idx,
                   identity, ttp, out_paths, results, w_idx, initCalls,
                   fl_calls, termCalls, signals, signalFailed, removed,
                   termConnDone, runHist>>

\* a bug of lines 120-146: `return workers` is indented into the loop body
\* and the function returns after the first handle
ReturnsInsideLoop(ws, reg_records) == Len(ws) >= 1

\* line 120: the for loop over reg_records has handled every record
LoopExhausted(ws, reg_records) == Len(ws) = Len(reg_records)

\* lines 144-146: the loop is exhausted, connect_to_workers returns workers
ConnectToWorkersReturn ==
    /\ pc = "connect_to_workers"
    /\ LoopExhausted(workers, registrations)
    /\ pc' = "load"
    /\ UNCHANGED <<nniVars, tagVars, inputs, training_combinations,
                   completed_trainings, returned, idx, identity, known_workers,
                   connections, sessVars, sessHist, runHist>>

\* a call to an external collaborator inside train_combination: it returns
\* and control moves to `next`, or it raises one of the exception classes
\* a bug of lines 305-319: a call that raises is logged and the next step
\* of train_combination is taken all the same
TrainStepBestEffort(here, next) ==
    /\ pc = here
    /\ \E o \in Outcomes :
          /\ fl_calls' = Append(fl_calls, [call |-> here, outcome |-> o])
          /\ pc' = next
          /\ trainFault' = IF o = "ok" THEN trainFault
                                       ELSE [site |-> here, cls |-> o]
          /\ UNCHANGED <<sessExit, exitExc>>

TrainStep(here, next) ==
    /\ pc = here
    /\ \E o \in Outcomes :
          /\ fl_calls' = Append(fl_calls, [call |-> here, outcome |-> o])
          /\ IF o = "ok"
             THEN /\ pc' = next
                  /\ UNCHANGED <<sessExit, exitExc, trainFault>>
             ELSE RaiseInTrain(here, o)

\* lines 302-307: load_selected_experiment, load_selected_run,
\* FederatedLearning(args, ttp, workers, model), fl_expt.load()
Load ==
    /\ TrainStep("load", "fit")
    /\ UNCHANGED <<nniVars, tagVars, inputs, training_combinations,
                   completed_trainings, returned, idx, identity, known_workers,
                   connections, sessVars, initCalls, termCalls, signals,
                   signalFailed, opened, configs, removed, openFailedAt,
                   termConnDone, runHist>>

\* line 308: fl_expt.fit()
Fit ==
    /\ TrainStep("fit", "export")
    /\ UNCHANGED <<nniVars, tagVars, inputs, training_combinations,
                   completed_trainings, returned, idx, identity, known_workers,
                   connections, sessVars, initCalls, termCalls, signals,
                   signalFailed, opened, configs, removed, openFailedAt,
                   termConnDone, runHist>>

\* lines 311-319: mkdir of res_dir and out_paths = fl_expt.export(res_dir)
Export ==
    /\ TrainStep("export", "terminate_connections")
    /\ out_paths' = IF pc' = "terminate_connections"
                    THEN <<"out_dir">> \o CurKey
                    ELSE out_paths
    /\ UNCHANGED <<nniVars, tagVars, inputs, training_combinations,
                   completed_trainings, returned, idx, identity, known_workers,
                   connections, ttp, workers, results, w_idx, initCalls,
                   termCalls, signals, signalFailed, opened, configs, removed,
                   openFailedAt, termConnDone, runHist>>

(* ---- terminate_connections (line 331, lines 149-194) ---- *)

\* a bug of lines 163-164: only grid_hook.local_worker is set back
RestoreIdentityHookOnly ==
    /\ pc = "terminate_connections"
    /\ hook_local_worker' = REF_WORKER
    /\ termConnTotal' = termConnTotal + 1
    /\ pc' = "remove_ttp"
    /\ UNCHANGED <<nniVars, tagVars, inputs, training_combinations,
                   completed_trainings, returned, idx, sy_local_worker,
                   known_workers, connections, sessVars, sessHist, started,
                   order, ttpCreated, termConnReturned>>

\* lines 163-164: both references are set back to REF_WORKER
RestoreIdentity ==
    /\ pc = "terminate_connections"
    /\ hook_local_worker' = REF_WORKER
    /\ sy_local_worker' = REF_WORKER
    /\ termConnTotal' = termConnTotal + 1
    /\ pc' = "remove_ttp"
    /\ UNCHANGED <<nniVars, tagVars, inputs, training_combinations,
                   completed_trainings, returned, idx, known_workers,
                   connections, sessVars, sessHist, started, order, ttpCreated,
                   termConnReturned>>

\* a bug of lines 167-168: only `del ttp` is executed, the coordinator stays
\* in the registry
RemoveTTPNameOnly ==
    /\ pc = "remove_ttp"
    /\ w_idx' = 0
    /\ pc' = "remove_workers"
    /\ UNCHANGED <<nniVars, tagVars, inputs, training_combinations,
                   completed_trainings, returned, idx, identity, known_workers,
                   connections, ttp, workers, out_paths, results, sessHist,
                   runHist>>

\* lines 167-173: ttp.remove_worker_from_local_worker_registry(); del ttp
RemoveTTP ==
    /\ pc = "remove_ttp"
    /\ known_workers' = Unregister(known_workers, ttp)
    /\ w_idx' = 0
    /\ pc' = "remove_workers"
    /\ UNCHANGED <<nniVars, tagVars, inputs, training_combinations,
                   completed_trainings, returned, idx, identity, connections,
                   ttp, workers, out_paths, results, sessHist, runHist>>

\* lines 175-194: one iteration of the loop over workers. An entry that is
\* None has no remove_worker_from_local_worker_registry (AttributeError).
\* The registry is library state: removing an id that is no longer
\* registered (a second handle of the same id) either does nothing or
\* raises KeyError. `del worker` (line 189) unbinds the loop variable only:
\* the workers list still holds the handle and no connection is closed
RemoveWorker ==
    /\ pc = "remove_workers"
    /\ w_idx < Len(workers)
    /\ LET worker == workers[w_idx + 1]
       IN  IF worker = NoWorker
           THEN /\ RaiseInTrain("teardown_null", "Exception")
                /\ UNCHANGED <<w_idx, known_workers, removed>>
           ELSE IF Registered(known_workers, worker.id)
           THEN /\ known_workers' = Unregister(known_workers, worker)
                /\ removed' = removed \cup {g \in known_workers : g.id = worker.id}
                /\ w_idx' = w_idx + 1
                /\ UNCHANGED <<pc, sessExit, exitExc, trainFault>>
           ELSE \/ /\ w_idx' = w_idx + 1
                   /\ UNCHANGED <<pc, sessExit, exitExc, trainFault,
                                  known_workers, removed>>
                \/ /\ RaiseInTrain("teardown", "Exception")
                   /\ UNCHANGED <<w_idx, known_workers, removed>>
    /\ UNCHANGED <<nniVars, tagVars, inputs, training_combinations,
                   completed_trainings, returned, idx, identity, connections,
                   ttp, workers, out_paths, results, initCalls, fl_calls,
                   termCalls, signals, signalFailed, opened, configs,
                   openFailedAt, termConnDone, runHist>>

\* line 194 was the last iteration: terminate_connections returns to
\* line 331
TerminateConnectionsReturn ==
    /\ pc = "remove_workers"
    /\ w_idx = Len(workers)
    /\ termConnDone' = TRUE
    /\ termConnReturned' = termConnReturned + 1
    /\ pc' = "train_return"
    /\ UNCHANGED <<nniVars, tagVars, inputs, training_combinations,
                   completed_trainings, returned, idx, identity, known_workers,
                   connections, sessVars, sessExit, trainFault, exitExc,
                   initCalls, fl_calls, termCalls, signals, signalFailed,
                   opened, configs, removed, openFailedAt, started, order,
                   ttpCreated, termConnTotal>>

\* lines 333-337: train_combination returns out_paths and line 346 binds
\* results; lines 348-362 only log
TrainCombinationReturn ==
    /\ pc = "train_return"
    /\ results' = out_paths
    /\ pc' = "terminate"
    /\ UNCHANGED <<nniVars, tagVars, inputs, training_combinations,
                   completed_trainings, returned, idx, identity, known_workers,
                   connections, ttp, workers, out_paths, w_idx, sessHist,
                   runHist>>

(* ---- garbage collection of worker objects ---- *)

\* train_combination's frame, which holds the workers list, is alive
InTrainFrame ==
    pc \in {"connect_to_workers", "load", "fit", "export",
            "terminate_connections", "remove_ttp", "remove_workers",
            "train_return"}

\* a worker object is still referenced by the registry or by the workers
\* list of a live frame
Referenced(h) ==
    \/ h \in known_workers
    \/ InTrainFrame /\ \E i \in 1..Len(workers) : workers[i] = h

\* docstring of terminate_connections (lines 152-155): objects are not
\* cleared explicitly, garbage collection releases a worker object, and
\* with it its connection, at some moment after the last reference is gone
CollectGarbage ==
    /\ \E h \in connections : ~Referenced(h)
    /\ connections' = {h \in connections : Referenced(h)}
    /\ UNCHANGED <<nniVars, tagVars, inputs, training_combinations,
                   completed_trainings, returned, pc, idx, identity,
                   known_workers, sessVars, sessHist, runHist>>

(* ---- the tail of start_expt_run_training ---- *)

\* lines 366-368: governor.terminate(reg_records=registrations), after the
\* try statement and outside it
GovernorTerminate ==
    /\ pc = "terminate"
    /\ termCalls' = termCalls + 1
    /\ signals' = Append(signals,
                         Signal("terminate",
                                ItemAt(training_combinations, idx),
                                registrations))
    /\ \E o \in Outcomes :
          IF o = "ok"
          THEN /\ pc' = "return"
               /\ UNCHANGED <<sessExit, exitExc, signalFailed>>
          ELSE /\ signalFailed' = TRUE
               /\ Propagate("terminate", o)
    /\ UNCHANGED <<nniVars, tagVars, inputs, training_combinations,
                   completed_trainings, returned, idx, identity, known_workers,
                   connections, sessVars, trainFault, initCalls, fl_calls,
                   opened, configs, removed, openFailedAt, termConnDone,
                   runHist>>

\* a bug (or a hasty fix) of lines 345-370: results is given a default
\* before the try, so that line 370 returns a value on every path
BoundByDefault(v) == TRUE

\* line 370: the name has been assigned, reading it raises nothing
Bound(v) == v # Unbound

\* line 370: return results. results is bound only by line 346; after the
\* except clause of line 363 the name is unbound and the return raises
\* UnboundLocalError. A returned value is stored by the comprehension
\* (lines 491-494) under the combination's key
ReturnResults ==
    /\ pc = "return"
    /\ IF Bound(results)
       THEN /\ completed_trainings' =
                  [k \in DOMAIN completed_trainings \cup {CurKey} |->
                      IF k = CurKey THEN results ELSE completed_trainings[k]]
            /\ sessExit' = "returned"
            /\ pc' = "next"
            /\ UNCHANGED exitExc
       ELSE /\ Propagate("return", "Exception")
            /\ UNCHANGED completed_trainings
    /\ UNCHANGED <<nniVars, tagVars, inputs, training_combinations, returned,
                   idx, identity, known_workers, connections, sessVars,
                   trainFault, initCalls, fl_calls, termCalls, signals,
                   signalFailed, opened, configs, removed, openFailedAt,
                   termConnDone, runHist>>

Next ==
    \/ StartProcBuild
    \/ StartExptRunTraining
    \/ StartProcReturn
    \/ GovernorInitialise
    \/ ConnectToTTP
    \/ OpenWorker
    \/ ConnectToWorkersReturn
    \/ Load
    \/ Fit
    \/ Export
    \/ RestoreIdentity
    \/ RemoveTTP
    \/ RemoveWorker
    \/ TerminateConnectionsReturn
    \/ TrainCombinationReturn
    \/ CollectGarbage
    \/ GovernorTerminate
    \/ ReturnResults

Spec == Init /\ [][Next]_vars

\* a step of the program itself: every step but the collector's
ProgramStep ==
    \/ StartProcBuild
    \/ StartExptRunTraining
    \/ StartProcReturn
    \/ GovernorInitialise
    \/ ConnectToTTP
    \/ OpenWorker
    \/ ConnectToWorkersReturn
    \/ Load
    \/ Fit
    \/ Export
    \/ RestoreIdentity
    \/ RemoveTTP
    \/ RemoveWorker
    \/ TerminateConnectionsReturn
    \/ TrainCombinationReturn
    \/ GovernorTerminate
    \/ ReturnResults

\* start_proc runs on a single thread and every external call returns or
\* raises: the thread takes its next step whenever it has one
FairSpec == Init /\ [][Next]_vars /\ WF_vars(ProgramStep)

(* ---- the Tag resource (rest_rpc/connection/tags.py) ---- *)

\* training of the project has commenced: start_proc has started a session
Commenced == started >= 1

\* the request is served: the table becomes db and the response is logged
\* together with the record stored under the key before and after, and with
\* the whole table before and after
Served(method, key, details, status, data, db) ==
    /\ Len(tag_log) < MaxReqs
    /\ tag_db' = db
    /\ tag_log' = Append(tag_log,
          [method |-> method, key |-> key, details |-> details,
           status |-> status, data |-> data,
           before |-> tag_db[key], after |-> db[key],
           store_before |-> tag_db, store_after |-> db,
           commenced |-> Commenced])
    /\ UNCHANGED <<trainVars, nniVars>>

\* a bug of line 99: the test is `is not None` and the table's read hands
\* back an empty record, never None, for a key it does not hold
TruthyAlways(record) == TRUE

\* lines 99, 272: `if retrieved_tag:`, `if deleted_tag:`, the record is
\* truthy when the table held one
Truthy(record) == record # NoTag

\* lines 90-133: Tag.get
TagGet ==
    \E key \in TagKeys :
        LET retrieved_tag == TagRead(tag_db, key)
        IN  /\ IF Truthy(retrieved_tag)
               THEN Served("get", key, "none", 200, retrieved_tag, tag_db)
               ELSE Served("get", key, "none", 404, NoTag, tag_db)
            /\ UNCHANGED last_doc_id

\* a bug of line 167: the payload answers with the request body, not with
\* the record that was read back
PostDataFromRequest(new_tag, retrieved_tag) ==
    [doc_id |-> 0, details |-> new_tag.details]

\* line 167: data=retrieved_tag
PostData(new_tag, retrieved_tag) == retrieved_tag

\* lines 141-195: Tag.post; a payload that fails the schema raises
\* ValidationError inside create() and is answered 417; a failing assert
\* (line 158) is answered 500
TagPost ==
    \E key \in TagKeys, details \in TagPayloads :
        IF ~ValidTags(details)
        THEN /\ Served("post", key, details, 417, NoTag, tag_db)
             /\ UNCHANGED last_doc_id
        ELSE LET db == TagCreate(tag_db, key, details, last_doc_id + 1)
                 new_tag == db[key]
                 retrieved_tag == TagRead(db, key)
             IN  /\ last_doc_id' = IF tag_db[key] = NoTag
                                    THEN last_doc_id + 1
                                    ELSE last_doc_id
                 /\ IF new_tag.doc_id = retrieved_tag.doc_id
                    THEN Served("post", key, details, 201,
                                PostData(new_tag, retrieved_tag), db)
                    ELSE Served("post", key, details, 500, NoTag, db)

\* lines 198-255: Tag.put; the method does not look at the state of
\* training. update() of a key without a record hands back no record and
\* line 218 fails on its doc_id (answered 500)
TagPut ==
    \E key \in TagKeys, tag_updates \in TagPayloads :
        /\ IF ~ValidTags(tag_updates)
           THEN Served("put", key, tag_updates, 417, NoTag, tag_db)
           ELSE LET db == TagUpdate(tag_db, key, tag_updates)
                    updated_tag == db[key]
                    retrieved_tag == TagRead(db, key)
                IN  IF updated_tag # NoTag
                       /\ updated_tag.doc_id = retrieved_tag.doc_id
                    THEN Served("put", key, tag_updates, 200, retrieved_tag, db)
                    ELSE Served("put", key, tag_updates, 500, NoTag, db)
        /\ UNCHANGED last_doc_id

\* a bug of lines 264-271: the record is read after it was deleted
DeleteDataReadAfter(db_before, db_after, key) == TagRead(db_after, key)

\* lines 264-267, 284: data=retrieved_tag, the record read before line 268
\* deletes it
DeleteData(db_before, db_after, key) == TagRead(db_before, key)

\* lines 260-311: Tag.delete
TagDelete ==
    \E key \in TagKeys :
        LET db == TagDeleteRecord(tag_db, key)
            deleted_tag == tag_db[key]
        IN  /\ IF Truthy(deleted_tag)
               THEN Served("delete", key, "none", 200,
                           DeleteData(tag_db, db, key), db)
               ELSE Served("delete", key, "none", 404, NoTag, tag_db)
            /\ UNCHANGED last_doc_id

\* the Tag resource serving requests before, while and after start_proc
\* starts the first session of a project with one experiment, one run and
\* one registration; what the session does afterwards does not touch the
\* Tag table
InitTag ==
    /\ Init
    /\ Len(experiments) = 1
    /\ Len(runs) = 1
    /\ Matches(experiments[1], runs[1])
    /\ runs[1].run_id = "run_1"
    /\ experiments[1].expt_id = "expt_1"
    /\ registrations = <<[id |-> "p1", f_port |-> TRUE, log_msgs |-> FALSE,
                          verbose |-> FALSE]>>

NextTag ==
    \/ StartProcBuild
    \/ StartExptRunTraining
    \/ TagGet
    \/ TagPost
    \/ TagPut
    \/ TagDelete

SpecTag == InitTag /\ [][NextTag]_vars

(* ---- NNITuner's methods ---- *)

Tuners == {"TPE", "Random"}
Metrics == {"accuracy", "f_score"}
OptimizeModes == {"maximize", "minimize"}
SearchSpaces == {"space_1", "space_2"}

\* valid arguments of tune (lines 179-192); the parameters with defaults are
\* left at their defaults
TuneArgs ==
    [project_id : ProjectIds, expt_id : ExptIds, search_space : SearchSpaces,
     tuner : Tuners, metric : Metrics, optimize_mode : OptimizeModes]

\* lines 102-107: the parameters of _generate_tuning_config that have no
\* default value
RequiredParameters ==
    {"project_id", "expt_id", "search_config_path", "tuner", "metric",
     "optimize_mode"}

\* lines 108-112: the parameters of _generate_tuning_config with a default
DefaultedParameters ==
    {"trial_concurrency", "max_exec_duration", "max_trial_num", "is_remote",
     "use_annotation"}

\* a caller of the helper method that passes every parameter by keyword
HelperKeywords == RequiredParameters \cup DefaultedParameters

\* lines 197-208: the keywords tune passes to _generate_tuning_config
TuneKeywords ==
    {"project_id", "expt_id", "search_config_path", "tuner", "optimize_mode",
     "trial_concurrency", "max_exec_duration", "max_trial_num", "is_remote",
     "use_annotation"}

\* the call binds: every parameter without a default is given; Python raises
\* TypeError before the body runs otherwise
Binds(keywords) == RequiredParameters \subseteq keywords

\* lines 89-93: os.path.join(self.log_dir, "nni", "search_space.json")
SearchConfigPath == <<"log_dir", "nni", "search_space.json">>

\* line 163: os.path.join(self.log_dir, "nni", "config.yaml")
NNIConfigPath == <<"log_dir", "nni", "config.yaml">>

\* lines 146-149: the driver script under the hypertuners directory
DriverScriptPath ==
    <<"src_dir", "rest_rpc", "training", "core", "hypertuners",
      "nni_driver_script.py">>

\* lines 94-95: the search space dumped as JSON
SearchConfig(search_space) ==
    [path |-> SearchConfigPath, format |-> "json", content |-> search_space]

\* lines 151-156: "python {} -pid {} -eid {} -m {} -d -l -v"
TrialCommand(project_id, expt_id, metric) ==
    <<"python", DriverScriptPath, "-pid", project_id, "-eid", expt_id,
      "-m", metric, "-d", "-l", "-v">>

\* lines 130-165: the configurations dumped as YAML
TuningConfig(args, search_config_path) ==
    [path |-> NNIConfigPath, format |-> "yaml",
     content |-> [authorName |-> args.project_id,
                  experimentName |-> args.expt_id,
                  searchSpacePath |-> search_config_path,
                  builtinTunerName |-> args.tuner,
                  optimize_mode |-> args.optimize_mode,
                  command |-> TrialCommand(args.project_id, args.expt_id,
                                           args.metric)]]

\* line 173: f"nnictl create --config {config_path}", as line 65 splits it
StartCommand(config_path) == <<"nnictl", "create", "--config", config_path>>

nniFrame == UNCHANGED <<trainVars, tagVars>>

NNIRaise(cls) ==
    /\ nni_pc' = "raised"
    /\ nni_exc' = cls

\* lines 179-192: tune is called with valid arguments
Tune ==
    /\ nni_pc = "idle"
    /\ nni_caller' = "tune"
    /\ nni_args' \in TuneArgs
    /\ nni_pc' = "search"
    /\ UNCHANGED <<nni_files, nni_exec, nni_out, nni_exc>>
    /\ nniFrame

\* a caller drives the helper methods itself, in the order tune names them
CallHelpers ==
    /\ nni_pc = "idle"
    /\ nni_caller' = "helpers"
    /\ nni_args' \in TuneArgs
    /\ nni_pc' = "search"
    /\ UNCHANGED <<nni_files, nni_exec, nni_out, nni_exc>>
    /\ nniFrame

\* lines 75-97 (called at line 195): _generate_search_config opens the file
\* for writing and dumps the search space; open() may fail
GenerateSearchConfig ==
    /\ nni_pc = "search"
    /\ \E o \in {"ok", "OSError"} :
          IF o = "ok"
          THEN /\ nni_files' =
                     Append(nni_files, SearchConfig(nni_args.search_space))
               /\ nni_pc' = "tuning"
               /\ UNCHANGED nni_exc
          ELSE /\ NNIRaise("OSError")
               /\ UNCHANGED nni_files
    /\ UNCHANGED <<nni_caller, nni_args, nni_exec, nni_out>>
    /\ nniFrame

\* lines 197-208: the call of _generate_tuning_config; lines 100-167: its body
GenerateTuningConfig ==
    /\ nni_pc = "tuning"
    /\ LET keywords == IF nni_caller = "tune" THEN TuneKeywords
                       ELSE HelperKeywords
       IN  IF ~Binds(keywords)
           THEN /\ NNIRaise("TypeError")
                /\ UNCHANGED nni_files
           ELSE \E o \in {"ok", "OSError"} :
                   IF o = "ok"
                   THEN /\ nni_files' =
                              Append(nni_files,
                                     TuningConfig(nni_args, SearchConfigPath))
                        /\ nni_pc' = "command"
                        /\ UNCHANGED nni_exc
                   ELSE /\ NNIRaise("OSError")
                        /\ UNCHANGED nni_files
    /\ UNCHANGED <<nni_caller, nni_args, nni_exec, nni_out>>
    /\ nniFrame

\* lines 210-211, 56-73: the start command is built and handed to
\* subprocess.run(check=True); a non-zero exit raises CalledProcessError
ExecuteCommand ==
    /\ nni_pc = "command"
    /\ nni_exec' = Append(nni_exec, StartCommand(NNIConfigPath))
    /\ \E o \in {"ok", "CalledProcessError"} :
          IF o = "ok"
          THEN /\ nni_out' = "stdout"
               /\ nni_pc' = "returned"
               /\ UNCHANGED nni_exc
          ELSE /\ NNIRaise(o)
               /\ UNCHANGED nni_out
    /\ UNCHANGED <<nni_caller, nni_args, nni_files>>
    /\ nniFrame

\* NNITuner on its own: no training runs and no Tag request is served
NextNNI ==
    \/ Tune
    \/ CallHelpers
    \/ GenerateSearchConfig
    \/ GenerateTuningConfig
    \/ ExecuteCommand

SpecNNI == InitTag /\ [][NextNNI]_vars

(* ---- terminate_connections(ttp, workers) on its own ---- *)

\* the registry after the first n entries of ws that are handles have
\* registered themselves
RECURSIVE RegisterAll(_, _, _)
RegisterAll(reg, ws, n) ==
    IF n = 0 THEN reg
    ELSE LET r == RegisterAll(reg, ws, n - 1)
         IN  IF ws[n] = NoWorker THEN r ELSE Register(r, ws[n])

\* the configs that the handles among the first n entries of ws were opened
\* with
RECURSIVE ConfigsAfter(_, _, _, _, _)
ConfigsAfter(regs, ws, lm, vb, n) ==
    IF n = 0 THEN <<>>
    ELSE LET c == ConfigsAfter(regs, ws, lm, vb, n - 1)
         IN  IF ws[n] = NoWorker THEN c ELSE Append(c, Config(regs[n], lm, vb))

\* a call terminate_connections(ttp, workers) in the first session, where
\* workers has one entry per registration record: the handle opened for
\* it, or None for a handle that was not opened
InitTC ==
    /\ experiments \in SeqsUpTo(ExptRecords, 1, 1)
    /\ runs \in SeqsUpTo(RunRecords, 1, 1)
    /\ Matches(experiments[1], runs[1])
    /\ registrations \in SeqsUpTo(SimRegRecords, 1, MaxRegs)
    /\ log_msgs = FALSE
    /\ verbose = FALSE
    /\ training_combinations = BuildCombinations(experiments, runs)
    /\ completed_trainings = EmptyDict
    /\ returned = EmptyDict
    /\ pc = "terminate_connections"
    /\ idx = 1
    /\ ttp = [id |-> "ttp", sess |-> 1, pos |-> 0]
    /\ sy_local_worker = ttp
    /\ hook_local_worker = ttp
    /\ workers \in
          {[i \in 1..Len(registrations) |->
               IF i \in o /\ registrations[i].f_port
               THEN [id |-> registrations[i].id, sess |-> 1, pos |-> i]
               ELSE NoWorker] : o \in SUBSET (1..Len(registrations))}
    /\ known_workers = RegisterAll({ttp}, workers, Len(workers))
    /\ opened = {workers[i] : i \in 1..Len(workers)} \ {NoWorker}
    /\ connections = opened
    /\ configs = ConfigsAfter(registrations, workers, log_msgs, verbose,
                              Len(workers))
    /\ fl_calls = [i \in 1..3 |->
                      [call |-> <<"load", "fit", "export">>[i], outcome |-> "ok"]]
    /\ out_paths = <<"out_dir">> \o training_combinations[1].key
    /\ results = Unbound
    /\ w_idx = 0
    /\ sessExit = "running"
    /\ trainFault = NoFault
    /\ exitExc = NoFault
    /\ initCalls = 1
    /\ termCalls = 0
    /\ signals = <<Signal("initialise", training_combinations[1],
                          registrations)>>
    /\ signalFailed = FALSE
    /\ removed = {}
    /\ openFailedAt = 0
    /\ termConnDone = FALSE
    /\ started = 1
    /\ order = <<training_combinations[1].key>>
    /\ ttpCreated = 1
    /\ termConnTotal = 0
    /\ termConnReturned = 0
    /\ TagInit
    /\ NNIInit

NextTC ==
    \/ RestoreIdentity
    \/ RemoveTTP
    \/ RemoveWorker
    \/ TerminateConnectionsReturn

SpecTC == InitTC /\ [][NextTC]_vars

(* ---- connect_to_workers(keys, reg_records, ...) on its own ---- *)

\* a call connect_to_workers(...) in the first session, right after
\* connect_to_ttp has returned, for registration records that store any
\* log_msgs / verbose settings and any session-level settings
InitCW ==
    /\ experiments \in SeqsUpTo(ExptRecords, 1, 1)
    /\ runs \in SeqsUpTo(RunRecords, 1, 1)
    /\ Matches(experiments[1], runs[1])
    /\ registrations \in SeqsUpTo(RegRecords, 1, MaxRegs)
    /\ log_msgs \in BOOLEAN
    /\ verbose \in BOOLEAN
    /\ training_combinations = BuildCombinations(experiments, runs)
    /\ completed_trainings = EmptyDict
    /\ returned = EmptyDict
    /\ pc = "connect_to_workers"
    /\ idx = 1
    /\ ttp = [id |-> "ttp", sess |-> 1, pos |-> 0]
    /\ sy_local_worker = ttp
    /\ hook_local_worker = ttp
    /\ workers = <<>>
    /\ known_workers = {ttp}
    /\ opened = {}
    /\ connections = {}
    /\ configs = <<>>
    /\ fl_calls = <<>>
    /\ out_paths = Unbound
    /\ results = Unbound
    /\ w_idx = 0
    /\ sessExit = "running"
    /\ trainFault = NoFault
    /\ exitExc = NoFault
    /\ initCalls = 1
    /\ termCalls = 0
    /\ signals = <<Signal("initialise", training_combinations[1],
                          registrations)>>
    /\ signalFailed = FALSE
    /\ removed = {}
    /\ openFailedAt = 0
    /\ termConnDone = FALSE
    /\ started = 1
    /\ order = <<training_combinations[1].key>>
    /\ ttpCreated = 1
    /\ termConnTotal = 0
    /\ termConnReturned = 0
    /\ TagInit
    /\ NNIInit

NextCW ==
    \/ OpenWorker
    \/ ConnectToWorkersReturn

SpecCW == InitCW /\ [][NextCW]_vars

(* ---- properties ---- *)

\* start_expt_run_training has exited, by return or by exception
SessionExited == sessExit \in {"returned", "raised"}

\* start_proc has exited, by return or by exception
ProcExited == pc \in {"returned", "raised"}

IdentityIsRef ==
    /\ sy_local_worker = REF_WORKER
    /\ hook_local_worker = REF_WORKER

\* C1: when start_expt_run_training exits for a combination whose
\* governor.initialise was attempted, governor.terminate has been invoked
\* exactly once, on every path (initialise raised, connecting raised,
\* training Trained or Failed with any exception class).
C1_TerminateExactlyOnce ==
    (SessionExited /\ initCalls >= 1) => termCalls = 1

\* C2: when start_expt_run_training exits from a session whose
\* connect_to_workers returned (training completed, or load, fit or export
\* raised), the worker handles opened by connect_to_workers are exactly
\* those removed from the registry by terminate_connections, and none of
\* them is still registered.
C2_HandleSymmetry ==
    (SessionExited /\ trainFault.site \in {"none", "load", "fit", "export"}) =>
        (opened = removed /\ opened \cap known_workers = {})

\* C3: whenever start_expt_run_training exits, by return or by exception,
\* sy.local_worker and grid_hook.local_worker are REF_WORKER again.
C3_IdentityRestoredOnExit ==
    SessionExited => IdentityIsRef

\* C4: in every state sy.local_worker and grid_hook.local_worker designate
\* the same object; that object is REF_WORKER before the first
\* connect_to_ttp, and REF_WORKER once start_proc has exited after its last
\* terminate_connections.
C4_SingleActiveIdentity ==
    /\ sy_local_worker = hook_local_worker
    /\ ttpCreated = 0 => IdentityIsRef
    /\ (ProcExited /\ termConnTotal >= 1) => IdentityIsRef

\* C5: when opening the handle of record k fails (k >= 2, so that handles
\* have already been opened), the k-1 handles already opened are removed
\* from the registry before the error leaves connect_to_workers, no worker
\* handle remains registered, and the combination is in the result map
\* start_proc returns (marked failed).
C5_PartialOpenCleanup ==
    openFailedAt > 1 =>
        /\ opened \subseteq removed
        /\ WorkerHandles(known_workers) = {}
        /\ ProcExited => (pc = "returned" /\ CurKey \in DOMAIN returned)

\* C6: a combination that fails because a worker connection cannot be
\* opened or because training raises does not prevent the later
\* combinations from being started: when start_proc exits after such a
\* failure, every combination of training_combinations has been started.
C6_FailureDoesNotStopLater ==
    (ProcExited /\ trainFault.site \in {"connect", "load", "fit", "export"})
    => started = Len(training_combinations)

\* C7: whatever subset of the combinations failed, start_proc returns to its
\* caller a mapping whose key set is exactly the set of requested
\* combination keys (stated for the runs in which no lifecycle signal
\* fails).
C7_CompleteMapping ==
    (ProcExited /\ ~signalFailed) =>
        /\ pc = "returned"
        /\ DOMAIN returned = DictKeys(training_combinations)

\* C8: when train_combination raises OSError (and no lifecycle signal
\* fails), start_expt_run_training does not raise to its caller and the
\* session's connections are torn down when it exits.
C8_OSErrorSwallowed ==
    (SessionExited /\ trainFault.cls = "OSError" /\ ~signalFailed) =>
        /\ sessExit = "returned"
        /\ IdentityIsRef
        /\ ttp \notin known_workers
        /\ opened \cap known_workers = {}

\* C9: when load, fit or export raises an exception that is not an OSError,
\* the exception leaves start_expt_run_training only after
\* terminate_connections has run for the session and governor.terminate has
\* been called.
C9_TeardownBeforePropagation ==
    (sessExit = "raised" /\ exitExc.site \in {"load", "fit", "export"}) =>
        /\ termConnDone
        /\ termCalls = 1

\* C10: an exception raised by governor.initialise or governor.terminate
\* never propagates out of start_expt_run_training.
C10_SignalFailureIgnored ==
    exitExc.site \notin {"initialise", "terminate"}

\* the runs of rs whose expt_id is the expt_id of some experiment of expts
JoinedRuns(expts, rs) ==
    {r \in 1..Len(rs) : \E e \in 1..Len(expts) : expts[e].expt_id = rs[r].expt_id}

\* C11: once start_proc has built training_combinations, its key set is
\* exactly the inner join of experiments and runs on expt_id: a key is
\* present if and only if some run record carries it and some experiment
\* record has the same expt_id; every entry pairs a run with an experiment
\* of the run's own expt_id.
C11_InnerJoin ==
    pc # "start" =>
        /\ DictKeys(training_combinations) =
              {CombinationKey(runs[r]) : r \in JoinedRuns(experiments, runs)}
        /\ \A i \in 1..Len(training_combinations) :
              LET c == training_combinations[i]
              IN  /\ experiments[c.expt].expt_id = runs[c.run].expt_id
                  /\ c.key = CombinationKey(runs[c.run])

\* C11 witness: the dict is built, one run is joined and another run, whose
\* expt_id matches no experiment, is left out
C11_Witness ==
    /\ pc # "start"
    /\ Len(training_combinations) >= 1
    /\ \E r \in 1..Len(runs) : r \notin JoinedRuns(experiments, runs)

\* C12: within one combination, whenever the session's coordinator is about
\* to be or has been installed by connect_to_ttp, or a worker handle is
\* about to be or has been opened by connect_to_workers, governor.initialise
\* has been invoked once and has returned.
C12_InitialiseBeforeConnect ==
    (pc \in {"connect_to_ttp", "connect_to_workers"}
        \/ ttp # NoWorker \/ opened # {})
    => (initCalls = 1 /\ exitExc.site # "initialise")

\* C12 witness: a worker handle has been opened in the running session
C12_Witness ==
    /\ sessExit = "running"
    /\ opened # {}
    /\ initCalls = 1

\* C13: whenever governor.terminate is about to be invoked or has been
\* invoked for a combination, terminate_connections has completed for that
\* session: the coordinator is no longer installed and neither it nor any
\* worker handle of the session is registered, whether training succeeded
\* or failed.
C13_TerminateAfterTeardown ==
    (pc = "terminate" \/ termCalls >= 1) =>
        /\ termConnDone
        /\ IdentityIsRef
        /\ ttp \notin known_workers
        /\ opened \cap known_workers = {}

\* C14: connect_to_ttp of a combination executes only when
\* terminate_connections has returned for every earlier combination, and
\* between two consecutive coordinator creations the identity is restored
\* to REF_WORKER exactly once: restores never run ahead of creations nor
\* fall more than one behind, and at each creation they are equal.
C14_SerializationBarrier ==
    /\ ttpCreated - termConnTotal \in {0, 1}
    /\ pc = "connect_to_ttp" =>
          /\ termConnReturned = ttpCreated
          /\ termConnTotal = ttpCreated
          /\ IdentityIsRef

\* C14 witness: the second combination is about to create its coordinator
C14_Witness ==
    /\ pc = "connect_to_ttp"
    /\ started = 2
    /\ ttpCreated = 1

\* C15: from the return of connect_to_ttp until terminate_connections runs
\* for the session, sy.local_worker and grid_hook.local_worker both
\* designate the coordinator created for that session, which is not
\* REF_WORKER nor the coordinator of another session.
C15_SessionCoordinatorActive ==
    pc \in {"connect_to_workers", "load", "fit", "export",
            "terminate_connections"}
    => /\ sy_local_worker = ttp
       /\ hook_local_worker = ttp
       /\ ttp = [id |-> "ttp", sess |-> started, pos |-> 0]
       /\ ttp # REF_WORKER

\* C15 witness: the second session is training under its own coordinator
C15_Witness ==
    /\ pc = "fit"
    /\ started = 2
    /\ sy_local_worker = ttp

\* C16: inside terminate_connections the connection of a worker handle is
\* still open when the call that removes the handle from the registry is
\* made, and the connection of every handle is released by the time
\* terminate_connections has returned.
C16_RemoveThenRelease ==
    /\ pc = "remove_workers" =>
          \A i \in 1..Len(workers) : i > w_idx => workers[i] \in connections
    /\ termConnDone => \A i \in 1..Len(workers) : workers[i] \notin connections

\* C17: terminate_connections called with a workers list that has None
\* entries skips them: it raises nothing for them, and when it has
\* returned every entry that is a handle has been removed from the
\* registry.
C17_NullEntriesSkipped ==
    (\E i \in 1..Len(workers) : workers[i] = NoWorker) =>
        /\ trainFault.site # "teardown_null"
        /\ pc # "raised"
        /\ termConnDone =>
              \A i \in 1..Len(workers) :
                  workers[i] # NoWorker => workers[i] \notin known_workers

\* C18: a fault raised by remove_worker_from_local_worker_registry for a
\* handle that is already stale never leaves start_expt_run_training, and
\* the handles after it in the workers list are still torn down.
C18_StaleFaultContained ==
    trainFault.site = "teardown" =>
        /\ exitExc.site # "teardown"
        /\ sessExit # "raised"
        /\ SessionExited =>
              \A i \in 1..Len(workers) : workers[i] \notin known_workers

C20_OneHandlePerRecord ==
    (InTrainFrame /\ pc # "connect_to_workers") =>
        /\ Len(workers) = Len(registrations)
        /\ \A i \in 1..Len(workers) :
              /\ workers[i].id = registrations[i].id
              /\ workers[i].pos = i
        /\ \A i, j \in 1..Len(workers) : i # j => workers[i] # workers[j]

\* C20 witness: connect_to_workers has returned two handles for two records
\* that carry the same id
C20_Witness ==
    /\ pc = "load"
    /\ Len(workers) = 2
    /\ registrations[1].id = registrations[2].id

\* C21: every config a worker handle has been opened with has no f_port
\* field, and its log_msgs and verbose are the session-level log_msgs and
\* verbose, whatever the registration record stores for them; the i-th
\* config is the one of the i-th record.
C21_ConfigStrippedAndOverlaid ==
    /\ Len(configs) = Len(workers)
    /\ \A i \in 1..Len(configs) :
          /\ ~configs[i].f_port
          /\ configs[i].log_msgs = log_msgs
          /\ configs[i].verbose = verbose
          /\ configs[i].id = registrations[i].id

\* C21 witness: a handle has been opened for a record whose stored settings
\* both differ from the session's
C21_Witness ==
    \E i \in 1..Len(configs) :
        /\ registrations[i].log_msgs # log_msgs
        /\ registrations[i].verbose # verbose
        /\ registrations[i].f_port

\* the scenario of one experiment, one run of that experiment and two
\* registrations that carry f_port
OneRunTwoWorkers ==
    /\ Len(experiments) = 1
    /\ Len(runs) = 1
    /\ Matches(experiments[1], runs[1])
    /\ Len(registrations) = 2
    /\ \A i \in 1..2 : registrations[i].f_port

\* C22: with one experiment, one matching run and two connectable
\* registrations, start_proc raises only when a call it makes raises, and
\* when it returns the map has exactly the key (project_id, expt_id, run_id)
\* of the run, its value is the mapping export returned, no worker handle is
\* in the registry and both identity references are REF_WORKER.
C22_SingleCombinationRun ==
    OneRunTwoWorkers =>
        /\ pc = "raised" => (trainFault # NoFault \/ signalFailed)
        /\ pc = "returned" =>
              /\ DOMAIN returned = {CombinationKey(runs[1])}
              /\ returned[CombinationKey(runs[1])] = out_paths
              /\ out_paths = <<"out_dir">> \o CombinationKey(runs[1])
              /\ WorkerHandles(known_workers) = {}
              /\ opened \cap known_workers = {}
              /\ IdentityIsRef

\* C22 witness: start_proc has returned in that scenario, after handles of
\* two different participants were opened
C22_Witness ==
    /\ OneRunTwoWorkers
    /\ pc = "returned"
    /\ Cardinality({h.id : h \in opened}) = 2

\* fl_expt.<call> has been invoked in the current session
Invoked(call) == \E i \in 1..Len(fl_calls) : fl_calls[i].call = call

\* C23: in every session fl_expt.export is invoked, or about to be invoked,
\* only after fl_expt.load and fl_expt.fit have been invoked in this session
\* and have returned without raising; in a session whose load or fit raised
\* export is never invoked and no artifact path exists.
C23_ExportOnlyIfTrained ==
    /\ (pc = "export" \/ Invoked("export")) =>
          /\ \E i, j \in 1..Len(fl_calls) :
                /\ i < j
                /\ fl_calls[i] = [call |-> "load", outcome |-> "ok"]
                /\ fl_calls[j] = [call |-> "fit", outcome |-> "ok"]
                /\ \A k \in 1..Len(fl_calls) :
                      fl_calls[k].call = "export" => j < k
          /\ trainFault.site \notin {"load", "fit"}
    /\ (\E i \in 1..Len(fl_calls) :
            fl_calls[i].call \in {"load", "fit"} /\ fl_calls[i].outcome # "ok")
       => (~Invoked("export") /\ pc # "export" /\ out_paths = Unbound)

\* C23 witness: the second session has exported after its own fit returned
C23_Witness ==
    /\ started = 2
    /\ Invoked("export")
    /\ out_paths # Unbound

\* C24: a PUT served once training of the project has commenced leaves
\* the stored tag record as it was, and a PUT answered 200 before training
\* has commenced stores the tags it carries.
C24_PutOnlyBeforeTraining ==
    \A i \in 1..Len(tag_log) :
        tag_log[i].method = "put" =>
            /\ tag_log[i].commenced => tag_log[i].after = tag_log[i].before
            /\ (~tag_log[i].commenced /\ tag_log[i].status = 200) =>
                  tag_log[i].after.details = tag_log[i].details

C26_ConnectBeforeTrain ==
    /\ opened # {} =>
          /\ ttp = [id |-> "ttp", sess |-> started, pos |-> 0]
          /\ \A h \in opened : h.sess = ttp.sess
    /\ pc \in {"load", "fit"} =>
          /\ sy_local_worker = ttp
          /\ hook_local_worker = ttp
          /\ ttp.sess = started
          /\ \A k \in 1..Len(registrations) :
                \E h \in opened : h.pos = k /\ h.id = registrations[k].id
          /\ Cardinality(opened) = Len(registrations)

\* C26 witness: fit is about to be invoked in a session of two registration
\* records
C26_Witness ==
    /\ pc = "fit"
    /\ Len(registrations) = 2
    /\ Cardinality(opened) = 2

\* the places (experiment e, run r) of the nested loop of start_proc, in the
\* order the loop visits them, at which the key is produced
PlacesOf(key) ==
    {(p[1] - 1) * Len(runs) + p[2] :
        p \in {q \in (1..Len(experiments)) \X (1..Len(runs)) :
                  /\ experiments[q[1]].expt_id = runs[q[2]].expt_id
                  /\ CombinationKey(runs[q[2]]) = key}}

\* the first place at which the key is produced
FirstPlace(key) ==
    CHOOSE n \in PlacesOf(key) : \A m \in PlacesOf(key) : n <= m

\* C27: the keys of training_combinations stand in the order in which the
\* nested loop first produces them (experiments in input order, within an
\* experiment its matching runs in input order); start_expt_run_training is
\* called for them in that order, one session at a time, each earlier
\* session having returned before the next is started; and the value
\* recorded under a key is the one returned for that same combination.
C27_SequentialInOrder ==
    pc # "start" =>
        /\ \A i, j \in 1..Len(training_combinations) :
              i < j => FirstPlace(training_combinations[i].key)
                          < FirstPlace(training_combinations[j].key)
        /\ started <= Len(training_combinations)
        /\ order = [i \in 1..started |-> training_combinations[i].key]
        /\ \A i \in 1..started :
              i < started => order[i] \in DOMAIN completed_trainings
        /\ \A key \in DOMAIN completed_trainings :
              /\ \E i \in 1..started : order[i] = key
              /\ completed_trainings[key] = <<"out_dir">> \o key
        /\ pc = "returned" => returned = completed_trainings

\* C27 witness: the second of two combinations has returned its value
C27_Witness ==
    /\ Len(training_combinations) = 2
    /\ started = 2
    /\ Cardinality(DOMAIN completed_trainings) = 2

\* C28: while a session is connecting, every worker handle in the registry
\* was created by this session: when a handle with participant id X is
\* opened, no handle with id X of an earlier session of the same start_proc
\* run is registered, and the handle that is opened is a new object of
\* this session.
C28_HandlesFreshPerSession ==
    /\ pc \in {"initialise", "connect_to_ttp", "connect_to_workers"} =>
          \A g \in WorkerHandles(known_workers) : g.sess = started
    /\ \A h \in opened :
          /\ h.sess = started
          /\ \A g \in known_workers : g.id = h.id => g.sess = started

\* C28 witness: the second session opens a handle for a participant the
\* first session had a handle for
C28_Witness ==
    /\ started = 2
    /\ pc = "connect_to_workers"
    /\ \E h \in opened : h \in known_workers

\* C29: start_expt_run_training returns a value only when train_combination
\* returned one: a session that returns has had load, fit and export
\* complete, terminate_connections return and governor.terminate called,
\* and its value, the one export returned, is recorded under its key; no
\* entry is recorded under the key of a session that is still running or
\* that raised.
C29_EntriesOnlyForCompleted ==
    started >= 1 =>
        /\ sessExit = "returned" =>
              /\ trainFault = NoFault
              /\ \A c \in {"load", "fit", "export"} :
                    \E i \in 1..Len(fl_calls) :
                        fl_calls[i] = [call |-> c, outcome |-> "ok"]
              /\ termConnDone
              /\ termCalls = 1
              /\ CurKey \in DOMAIN completed_trainings
              /\ completed_trainings[CurKey] = out_paths
              /\ out_paths # Unbound
        /\ sessExit # "returned" => CurKey \notin DOMAIN completed_trainings
        /\ DOMAIN returned \subseteq DOMAIN completed_trainings

\* C29 witness: start_proc has returned a map with the entries of two
\* sessions
C29_Witness ==
    /\ pc = "returned"
    /\ Cardinality(DOMAIN returned) = 2
    /\ sessExit = "returned"

\* terminate_connections has started in the current session
TeardownStarted ==
    \/ pc \in {"remove_ttp", "remove_workers", "train_return"}
    \/ termConnDone
    \/ trainFault.site \in {"teardown", "teardown_null"}

\* C30: terminate_connections sets both identity references back to
\* REF_WORKER before it removes anything from the registry, so they are
\* REF_WORKER in every state of the session after it has started, also when
\* a registry removal raises; and when it has returned normally neither the
\* coordinator nor any worker handle of the session is registered.
C30_RestoreBeforeRemoval ==
    /\ TeardownStarted => IdentityIsRef
    /\ (ttp # NoWorker /\ (ttp \notin known_workers \/ removed # {}))
          => IdentityIsRef
    /\ termConnDone =>
          /\ ttp \notin known_workers
          /\ opened \cap known_workers = {}
          /\ \A i \in 1..Len(workers) : ~Registered(known_workers, workers[i].id)

\* C30 witness: a registry removal has raised inside terminate_connections
\* after the coordinator and a handle had been removed
C30_Witness ==
    /\ trainFault.site = "teardown"
    /\ removed # {}
    /\ ttp \notin known_workers

\* the sessions started so far were each for a different combination key
OneSessionPerKey ==
    \A i, j \in 1..Len(order) : order[i] = order[j] => i = j

\* C31: within a session, every lifecycle signal issued so far carries the
\* combination key of that session and the registration records the session
\* runs with; the signals are initialise first and then at most one terminate;
\* once the session is past governor.initialise exactly one initialise has
\* been issued for it, and no combination key gets a second session
C31_SignalsCarrySessionArguments ==
    idx >= 1 =>
        /\ \A i \in 1..Len(signals) :
              /\ signals[i].keys = CurKey
              /\ signals[i].reg_records = registrations
        /\ \E n \in 0..2 :
              signals = [i \in 1..n |->
                            Signal(<<"initialise", "terminate">>[i],
                                   ItemAt(training_combinations, idx),
                                   registrations)]
        /\ (pc \notin {"next", "initialise"} /\ sessExit = "running")
              => (Len(signals) >= 1 /\ initCalls = 1)
        /\ initCalls <= 1
        /\ OneSessionPerKey

\* the second session of a run has issued initialise and terminate, each with
\* the second combination's key
C31_Witness ==
    /\ started = 2
    /\ Len(signals) = 2
    /\ signals[1].call = "initialise"
    /\ signals[2].call = "terminate"
    /\ signals[2].keys = order[2]
    /\ order[2] # order[1]

\* the last place of the nested loop at which the key is produced
LastPlace(key) ==
    CHOOSE n \in PlacesOf(key) : \A m \in PlacesOf(key) : m <= n

\* the place of the (experiment, run) pair an entry of the dict holds
PlaceOfEntry(c) == (c.expt - 1) * Len(runs) + c.run

\* the distinct combination keys the matching (experiment, run) pairs produce
DistinctKeys ==
    {CombinationKey(runs[r]) : r \in JoinedRuns(experiments, runs)}

C36_TuneWritesThenExecutes ==
    nni_caller = "tune" =>
        /\ nni_exec # <<>> => Len(nni_files) = 2
        /\ (/\ nni_pc \in {"returned", "raised"}
            /\ nni_exc \notin {"OSError", "CalledProcessError"})
           => /\ nni_pc = "returned"
              /\ nni_files = <<SearchConfig(nni_args.search_space),
                               TuningConfig(nni_args, SearchConfigPath)>>
              /\ nni_exec = <<StartCommand(NNIConfigPath)>>
              /\ nni_out = "stdout"

\* the sessions started so far: one per combination key at most, in number
\* at most the distinct keys and at most |experiments| x |runs|
SessionsBounded ==
    /\ OneSessionPerKey
    /\ started = Len(order)
    /\ pc # "start" =>
          /\ started <= Cardinality(DictKeys(training_combinations))
          /\ Cardinality(DictKeys(training_combinations))
                <= Len(experiments) * Len(runs)
          /\ \A i \in 1..Len(order) :
                order[i] \in DictKeys(training_combinations)

\* C37: when the thread of start_proc keeps taking its steps, start_proc
\* ends (it returns or an exception leaves it), and at every moment the
\* sessions it has started are at most one per distinct combination key and
\* at most |experiments| x |runs|: no combination is run twice
C37_TerminatesWithinBound ==
    /\ []SessionsBounded
    /\ <>ProcExited

\* two experiments and two runs producing two distinct keys: start_proc has
\* returned after one session for each key
C37_Witness ==
    /\ pc = "returned"
    /\ Len(experiments) = 2
    /\ Len(runs) = 2
    /\ started = 2
    /\ started = Cardinality(DictKeys(training_combinations))

====
